---- MODULE Spec2Model ----
(***************************************************************************)
(* State-machine model of Project1/schedulers.go: the four scheduling      *)
(* policies FCFSSchedule, SJFSchedule, SJFPrioritySchedule and RRSchedule. *)
(* One behaviour is one call of one policy on one batch of processes.      *)
(* int64 values stay far below 2^63 and float64 values are small integers, *)
(* so both are modelled by Int; a float64 quotient is kept as the pair     *)
(* [num, den] of its operands (den = 0 is Go's NaN or Inf).                *)
(***************************************************************************)
EXTENDS Integers, Sequences, FiniteSets, TLC

\* Bounds of the batches drawn in Init.
MaxLen == 3
MaxArrival == 2
MaxBurst == 2

VARIABLES
    policy,          \* which of the four functions was called
    input,           \* the caller's slice as it was at the call
    processes,       \* the caller's slice (sorted in place by three policies)
    pc,              \* position in the function body
    i,               \* loop index (1-based)
    serviceTime, waitingTime, totalWait, totalTurnaround, lastCompletion,
    schedule, gantt,
    remainingTime, arrivalTime, turnaroundTime, currentTime, totalWaiting,
    done,
    completionTime,  \* RR: currentTime at the moment process k was executed
    scans,           \* RR: passes of the outer loop begun so far
    executions,      \* RR: the executions so far, in order
    aveWait, aveTurnaround, aveThroughput,
    output           \* renderer calls made so far, in order

vars == <<policy, input, processes, pc, i, serviceTime, waitingTime, totalWait,
          totalTurnaround, lastCompletion, schedule, gantt, remainingTime,
          arrivalTime, turnaroundTime, currentTime, totalWaiting, done,
          completionTime, scans, executions, aveWait, aveTurnaround,
          aveThroughput, output>>

loopVars == <<serviceTime, totalWait, lastCompletion, gantt>>
rrVars == <<remainingTime, arrivalTime, turnaroundTime, currentTime,
            totalWaiting, done, completionTime, scans, executions>>
aveVars == <<aveWait, aveTurnaround, aveThroughput, output>>

Policies == {"FCFS", "SJF", "SJFPriority", "RR"}

----------------------------------------------------------------------------
\* fmt.Sprint on an int64: the decimal numeral, "-" first when negative.

DigitStr(d) ==
    CASE d = 0 -> "0" [] d = 1 -> "1" [] d = 2 -> "2" [] d = 3 -> "3"
      [] d = 4 -> "4" [] d = 5 -> "5" [] d = 6 -> "6" [] d = 7 -> "7"
      [] d = 8 -> "8" [] d = 9 -> "9"

RECURSIVE NatStr(_)
NatStr(n) == IF n < 10 THEN DigitStr(n) ELSE NatStr(n \div 10) \o DigitStr(n % 10)

Sprint(n) == IF n < 0 THEN "-" \o NatStr(-n) ELSE NatStr(n)

----------------------------------------------------------------------------
\* The Process struct and the batches a caller passes.

Process(id, arrival, burst, priority) ==
    [ProcessID |-> id, ArrivalTime |-> arrival, BurstDuration |-> burst,
     Priority |-> priority, RemainingTime |-> 0, Index |-> 0]

TimeSlice(pid, start, stop) == [PID |-> pid, Start |-> start, Stop |-> stop]

PID(k) == "P" \o NatStr(k)

Timing == [ArrivalTime : 0..MaxArrival, BurstDuration : 1..MaxBurst]

MkBatch(f) ==
    [k \in 1..Len(f) |-> Process(PID(k), f[k].ArrivalTime, f[k].BurstDuration, k)]

\* The batch of the documented scenarios.
ScenarioBatch ==
    <<Process("P1", 0, 5, 1), Process("P2", 1, 3, 2), Process("P3", 2, 8, 3)>>

----------------------------------------------------------------------------
\* sort.Slice(processes, less) with less comparing BurstDuration.  For slices
\* of at most 12 elements the library runs an insertion sort: element j moves
\* left while it is less than its left neighbour.

\* Faulty variant: the comparison reversed.
LessDescending(p, q) == p.BurstDuration > q.BurstDuration

Less(p, q) == p.BurstDuration < q.BurstDuration

RECURSIVE InsertLess(_, _)
InsertLess(s, x) ==
    IF s = <<>> \/ ~Less(x, s[Len(s)])
    THEN Append(s, x)
    ELSE Append(InsertLess(SubSeq(s, 1, Len(s) - 1), x), s[Len(s)])

RECURSIVE SortSlice(_)
SortSlice(s) ==
    IF s = <<>> THEN s
    ELSE InsertLess(SortSlice(SubSeq(s, 1, Len(s) - 1)), s[Len(s)])

----------------------------------------------------------------------------
\* The arithmetic of one iteration of the FCFS / SJF / SJFPriority loop.

\* Faulty variant: the waiting time recomputed for every process.
FCFSWaitingRecomputed(w, st, p) == st - p.ArrivalTime

\* Faulty variant: the arrival time is not subtracted.
FCFSWaitingNoArrival(w, st, p) == IF p.ArrivalTime > 0 THEN st ELSE w

FCFSWaiting(w, st, p) == IF p.ArrivalTime > 0 THEN st - p.ArrivalTime ELSE w

\* Faulty variant: the clamp at 0 is missing.
SJFWaitingNoClamp(w, st, p) == IF p.ArrivalTime > 0 THEN st - p.ArrivalTime ELSE w

SJFWaiting(w, st, p) ==
    IF p.ArrivalTime > 0
    THEN IF st - p.ArrivalTime < 0 THEN 0 ELSE st - p.ArrivalTime
    ELSE w

\* Faulty variant: the clock never idles.
IdleClockNever(st, p) == st

IdleClock(st, p) == IF p.ArrivalTime > st THEN p.ArrivalTime ELSE st

StartOf(w, p) == w + p.ArrivalTime

TurnaroundOf(w, p) == p.BurstDuration + w

\* Faulty variant: the arrival time is left out.
CompletionNoArrival(w, p) == p.BurstDuration + w

CompletionOf(w, p) == p.BurstDuration + p.ArrivalTime + w

\* Faulty variant: the first two columns swapped.
RowPriorityFirst(p, w, t, c) ==
    <<Sprint(p.Priority), p.ProcessID, Sprint(p.BurstDuration),
      Sprint(p.ArrivalTime), Sprint(w), Sprint(t), Sprint(c)>>

Row(p, w, t, c) ==
    <<p.ProcessID, Sprint(p.Priority), Sprint(p.BurstDuration),
      Sprint(p.ArrivalTime), Sprint(w), Sprint(t), Sprint(c)>>

RRRow(p, w, t) ==
    <<p.ProcessID, Sprint(p.Priority), Sprint(p.BurstDuration),
      Sprint(p.ArrivalTime), Sprint(w), Sprint(t)>>

\* A float64 quotient a / b, kept unevaluated.
Quot(a, b) == [num |-> a, den |-> b]

Renders == <<"outputTitle", "outputGantt", "outputSchedule">>
RRRenders == <<"outputTitle", "outputSchedule">>

----------------------------------------------------------------------------
Init ==
    /\ policy \in Policies
    /\ \/ \E n \in 0..MaxLen : \E f \in [1..n -> Timing] : input = MkBatch(f)
       \/ input = ScenarioBatch
    /\ processes = input
    /\ pc = IF policy = "FCFS" THEN "loop" ELSE "sort"
    /\ i = 1
    /\ serviceTime = 0
    /\ waitingTime = IF policy = "RR" THEN [k \in 1..Len(input) |-> 0] ELSE 0
    /\ totalWait = 0
    /\ totalTurnaround = 0
    /\ lastCompletion = 0
    /\ schedule = [k \in 1..Len(input) |-> <<>>]
    /\ gantt = <<>>
    /\ remainingTime = IF policy = "RR" THEN [k \in 1..Len(input) |-> 0] ELSE <<>>
    /\ arrivalTime = IF policy = "RR" THEN [k \in 1..Len(input) |-> 0] ELSE <<>>
    /\ turnaroundTime = IF policy = "RR" THEN [k \in 1..Len(input) |-> 0] ELSE <<>>
    /\ completionTime = IF policy = "RR" THEN [k \in 1..Len(input) |-> 0] ELSE <<>>
    /\ scans = 0
    /\ executions = <<>>
    /\ currentTime = 0
    /\ totalWaiting = 0
    /\ done = FALSE
    /\ aveWait = Quot(0, 1)
    /\ aveTurnaround = Quot(0, 1)
    /\ aveThroughput = Quot(0, 1)
    /\ output = <<>>

\* sort.Slice at the head of SJFSchedule, SJFPrioritySchedule and RRSchedule.
SJFSort ==
    /\ policy = "SJF" /\ pc = "sort"
    /\ processes' = SortSlice(processes)
    /\ pc' = "loop"
    /\ UNCHANGED <<policy, input, i, waitingTime, totalTurnaround, schedule>>
    /\ UNCHANGED <<loopVars, rrVars, aveVars>>

SJFPrioritySort ==
    /\ policy = "SJFPriority" /\ pc = "sort"
    /\ processes' = SortSlice(processes)
    /\ pc' = "loop"
    /\ UNCHANGED <<policy, input, i, waitingTime, totalTurnaround, schedule>>
    /\ UNCHANGED <<loopVars, rrVars, aveVars>>

RRSort ==
    /\ policy = "RR" /\ pc = "sort"
    /\ processes' = SortSlice(processes)
    /\ pc' = "init"
    /\ UNCHANGED <<policy, input, i, waitingTime, totalTurnaround, schedule>>
    /\ UNCHANGED <<loopVars, rrVars, aveVars>>

\* One iteration of the loop shared by the three non-RR policies: st is the
\* clock the waiting time is computed from, w the new waiting time.
LoopBody(st, w) ==
    LET p == processes[i]
        start == StartOf(w, p)
        turnaround == TurnaroundOf(w, p)
        completion == CompletionOf(w, p)
    IN  /\ waitingTime' = w
        /\ totalWait' = totalWait + w
        /\ totalTurnaround' = totalTurnaround + turnaround
        /\ lastCompletion' = completion
        /\ schedule' = [schedule EXCEPT ![i] = Row(p, w, turnaround, completion)]
        /\ serviceTime' = st + p.BurstDuration
        /\ gantt' = Append(gantt, TimeSlice(p.ProcessID, start, st + p.BurstDuration))
        /\ i' = i + 1
        /\ UNCHANGED <<policy, input, processes, pc, rrVars, aveVars>>

FCFSStep ==
    /\ policy = "FCFS" /\ pc = "loop" /\ i <= Len(processes)
    /\ LoopBody(serviceTime, FCFSWaiting(waitingTime, serviceTime, processes[i]))

SJFStep ==
    /\ policy = "SJF" /\ pc = "loop" /\ i <= Len(processes)
    /\ LoopBody(serviceTime, SJFWaiting(waitingTime, serviceTime, processes[i]))

SJFPriorityStep ==
    /\ policy = "SJFPriority" /\ pc = "loop" /\ i <= Len(processes)
    /\ LET st == IdleClock(serviceTime, processes[i])
       IN  LoopBody(st, SJFWaiting(waitingTime, st, processes[i]))

\* The aggregates and the three renderer calls that end the non-RR policies.
Finish ==
    /\ policy # "RR" /\ pc = "loop" /\ i > Len(processes)
    /\ aveWait' = Quot(totalWait, Len(processes))
    /\ aveTurnaround' = Quot(totalTurnaround, Len(processes))
    /\ aveThroughput' = Quot(Len(processes), lastCompletion)
    /\ output' = Renders
    /\ pc' = "done"
    /\ UNCHANGED <<policy, input, processes, i, waitingTime, totalTurnaround, schedule>>
    /\ UNCHANGED <<loopVars, rrVars>>

\* RRSchedule: copy burst and arrival into the working arrays.
RRInit ==
    /\ policy = "RR" /\ pc = "init"
    /\ remainingTime' = [k \in 1..Len(processes) |-> processes[k].BurstDuration]
    /\ arrivalTime' = [k \in 1..Len(processes) |-> processes[k].ArrivalTime]
    /\ pc' = "for"
    /\ UNCHANGED <<policy, input, processes, i, waitingTime, totalTurnaround, schedule>>
    /\ UNCHANGED <<turnaroundTime, currentTime, totalWaiting, done, completionTime,
                   scans, executions>>
    /\ UNCHANGED <<loopVars, aveVars>>

\* Head of one pass of the outer "for" loop.
RRLoopHead ==
    /\ policy = "RR" /\ pc = "for"
    /\ done' = TRUE
    /\ i' = 1
    /\ pc' = "scan"
    /\ scans' = scans + 1
    /\ UNCHANGED <<policy, input, processes, waitingTime, totalTurnaround, schedule>>
    /\ UNCHANGED <<remainingTime, arrivalTime, turnaroundTime, currentTime,
                   totalWaiting, completionTime, executions>>
    /\ UNCHANGED <<loopVars, aveVars>>

\* Faulty variant: every execution costs one extra time unit.
ExecuteWithOverhead(ct, rem) == ct + rem + 1

\* The clock after process k is executed in full.
Execute(ct, rem) == ct + rem

\* Faulty variant: a process runs for a quantum of one time unit per visit.
RRScanStepQuantum ==
    /\ policy = "RR" /\ pc = "scan" /\ i <= Len(processes)
    /\ IF remainingTime[i] > 0
       THEN /\ done' = FALSE
            /\ currentTime' = Execute(currentTime, 1)
            /\ remainingTime' = [remainingTime EXCEPT ![i] = remainingTime[i] - 1]
            /\ IF remainingTime[i] = 1
               THEN /\ turnaroundTime' =
                         [turnaroundTime EXCEPT ![i] = currentTime' - arrivalTime[i]]
                    /\ completionTime' = [completionTime EXCEPT ![i] = currentTime']
               ELSE UNCHANGED <<turnaroundTime, completionTime>>
            /\ executions' = Append(executions,
                   [index |-> i, scan |-> scans, ran |-> currentTime' - currentTime])
       ELSE UNCHANGED <<done, currentTime, turnaroundTime, completionTime,
                        remainingTime, executions>>
    /\ i' = i + 1
    /\ UNCHANGED <<policy, input, processes, pc, waitingTime, totalTurnaround,
                   schedule, arrivalTime, totalWaiting, scans>>
    /\ UNCHANGED <<loopVars, aveVars>>

\* One iteration of the inner scan.
RRScanStep ==
    /\ policy = "RR" /\ pc = "scan" /\ i <= Len(processes)
    /\ IF remainingTime[i] > 0
       THEN /\ done' = FALSE
            /\ currentTime' = Execute(currentTime, remainingTime[i])
            /\ turnaroundTime' =
                 [turnaroundTime EXCEPT ![i] = currentTime' - arrivalTime[i]]
            /\ completionTime' = [completionTime EXCEPT ![i] = currentTime']
            /\ remainingTime' = [remainingTime EXCEPT ![i] = 0]
            /\ executions' = Append(executions,
                   [index |-> i, scan |-> scans, ran |-> currentTime' - currentTime])
       ELSE UNCHANGED <<done, currentTime, turnaroundTime, completionTime,
                        remainingTime, executions>>
    /\ i' = i + 1
    /\ UNCHANGED <<policy, input, processes, pc, waitingTime, totalTurnaround,
                   schedule, arrivalTime, totalWaiting, scans>>
    /\ UNCHANGED <<loopVars, aveVars>>

\* End of a scan: leave the outer loop when nothing was executed.
RRCheck ==
    /\ policy = "RR" /\ pc = "scan" /\ i > Len(processes)
    /\ IF done THEN pc' = "rows" /\ i' = 1 ELSE pc' = "for" /\ i' = i
    /\ UNCHANGED <<policy, input, processes, waitingTime, totalTurnaround, schedule>>
    /\ UNCHANGED <<loopVars, rrVars, aveVars>>

\* Faulty variant: the waiting time clamped at 0.
RRWaitingClamped(t, p) == IF t - p.BurstDuration < 0 THEN 0 ELSE t - p.BurstDuration

RRWaiting(t, p) == t - p.BurstDuration

\* One iteration of the loop that fills the table.
RRRowStep ==
    /\ policy = "RR" /\ pc = "rows" /\ i <= Len(processes)
    /\ LET p == processes[i]
           w == RRWaiting(turnaroundTime[i], p)
       IN  /\ waitingTime' = [waitingTime EXCEPT ![i] = w]
           /\ totalTurnaround' = totalTurnaround + turnaroundTime[i]
           /\ totalWaiting' = totalWaiting + w
           /\ schedule' = [schedule EXCEPT ![i] = RRRow(p, w, turnaroundTime[i])]
    /\ i' = i + 1
    /\ UNCHANGED <<policy, input, processes, pc>>
    /\ UNCHANGED <<remainingTime, arrivalTime, turnaroundTime, currentTime,
                   done, completionTime, scans, executions>>
    /\ UNCHANGED <<loopVars, aveVars>>

\* The aggregates and the two renderer calls that end RRSchedule.
RRFinish ==
    /\ policy = "RR" /\ pc = "rows" /\ i > Len(processes)
    /\ aveTurnaround' = Quot(totalTurnaround, Len(processes))
    /\ aveWait' = Quot(totalWaiting, Len(processes))
    /\ aveThroughput' = Quot(Len(processes), currentTime)
    /\ output' = RRRenders
    /\ pc' = "done"
    /\ UNCHANGED <<policy, input, processes, i, waitingTime, totalTurnaround, schedule>>
    /\ UNCHANGED <<loopVars, rrVars>>

Next ==
    \/ SJFSort \/ SJFPrioritySort \/ RRSort
    \/ FCFSStep \/ SJFStep \/ SJFPriorityStep
    \/ Finish
    \/ RRInit \/ RRLoopHead \/ RRScanStep \/ RRCheck \/ RRRowStep \/ RRFinish

Spec == Init /\ [][Next]_vars

----------------------------------------------------------------------------
\* Reading the table back: the integer a cell's numeral stands for.

Horizon == 16 + MaxArrival + MaxLen * MaxBurst
NumRange == (0 - Horizon)..Horizon
Numerals == [n \in NumRange |-> Sprint(n)]
Atoi(s) == CHOOSE n \in NumRange : Numerals[n] = s

RowID(r) == r[1]
RowWaiting(r) == Atoi(r[5])
RowTurnaround(r) == Atoi(r[6])
RowCompletion(r) == Atoi(r[7])

Column(col(_)) == [k \in 1..Len(schedule) |-> col(schedule[k])]

Ran(pol) == policy = pol /\ pc = "done"

\* The completion time of the k-th served process: the table's last column,
\* or for RR the clock at the moment the process was executed.
CompletionAt(k) ==
    IF policy = "RR" THEN completionTime[k] ELSE RowCompletion(schedule[k])

----------------------------------------------------------------------------
\* C1: after a run of any policy, every row satisfies
\* CompletionTime = ArrivalTime + WaitingTime + BurstDuration and
\* TurnaroundTime = WaitingTime + BurstDuration.
C1_Identities ==
    pc = "done" =>
        \A k \in 1..Len(processes) :
            LET p == processes[k]
                r == schedule[k]
            IN  /\ CompletionAt(k) = p.ArrivalTime + RowWaiting(r) + p.BurstDuration
                /\ RowTurnaround(r) = RowWaiting(r) + p.BurstDuration

C1_Witness ==
    /\ Ran("RR") /\ Len(processes) = 3
    /\ \E k \in 1..3 : RowWaiting(schedule[k]) > 0 /\ processes[k].ArrivalTime > 0

\* C2: after FCFSSchedule on a non-empty batch with ArrivalTime >= 0 and
\* BurstDuration > 0, every reported WaitingTime is >= 0.
C2_FCFSWaitingNonNegative ==
    (Ran("FCFS") /\ Len(processes) > 0) =>
        \A k \in 1..Len(processes) : RowWaiting(schedule[k]) >= 0

\* C3: scenario A, FCFSSchedule on P1(0,5), P2(1,3), P3(2,8).
C3_ScenarioA ==
    (Ran("FCFS") /\ input = ScenarioBatch) =>
        /\ Column(RowID) = <<"P1", "P2", "P3">>
        /\ Column(RowWaiting) = <<0, 4, 6>>
        /\ Column(RowTurnaround) = <<5, 7, 14>>
        /\ Column(RowCompletion) = <<5, 8, 16>>
        /\ aveWait = Quot(10, 3)
        /\ aveTurnaround = Quot(26, 3)
        /\ aveThroughput = Quot(3, 16)

C3_Witness == Ran("FCFS") /\ input = ScenarioBatch /\ Len(schedule[3]) = 7

\* C4: scenario B, SJFSchedule on the same batch serves P2, P1, P3.
C4_ScenarioB ==
    (Ran("SJF") /\ input = ScenarioBatch) =>
        /\ Column(RowID) = <<"P2", "P1", "P3">>
        /\ Column(RowWaiting) = <<0, 0, 6>>
        /\ Column(RowTurnaround) = <<3, 5, 14>>
        /\ Column(RowCompletion) = <<4, 5, 16>>
        /\ aveWait = Quot(6, 3)
        /\ aveTurnaround = Quot(22, 3)
        /\ aveThroughput = Quot(3, 16)

C4_Witness == Ran("SJF") /\ input = ScenarioBatch /\ processes # input

\* C5: scenario C, RRSchedule on the same batch serves P2, P1, P3 with
\* turnaround [2,8,14] and waiting [-1,3,6]: P2's waiting time is negative.
C5_ScenarioC ==
    (Ran("RR") /\ input = ScenarioBatch) =>
        /\ Column(RowID) = <<"P2", "P1", "P3">>
        /\ Column(RowTurnaround) = <<2, 8, 14>>
        /\ Column(RowWaiting) = <<0 - 1, 3, 6>>

C5_Witness ==
    /\ Ran("RR") /\ input = ScenarioBatch
    /\ RowID(schedule[1]) = "P2" /\ schedule[1][5] = "-1"

\* C6: in the timeline of FCFS, SJF and SJFPriority no two entries overlap:
\* at most one process occupies the CPU at any time.
Overlap(a, b) ==
    /\ a.Start < a.Stop /\ b.Start < b.Stop
    /\ a.Start < b.Stop /\ b.Start < a.Stop

C6_NoOverlap ==
    (policy # "RR" /\ pc = "done") =>
        \A k, m \in 1..Len(gantt) : k # m => ~Overlap(gantt[k], gantt[m])

\* C7: a single-process batch with any ArrivalTime >= 0 is reported with
\* WaitingTime = 0, TurnaroundTime = CompletionTime = BurstDuration and
\* throughput = 1 / CompletionTime by every policy.
C7_SingleAnyArrival ==
    (pc = "done" /\ Len(processes) = 1) =>
        /\ RowWaiting(schedule[1]) = 0
        /\ RowTurnaround(schedule[1]) = processes[1].BurstDuration
        /\ CompletionAt(1) = processes[1].BurstDuration
        /\ aveThroughput = Quot(1, CompletionAt(1))

\* C9: FCFS leaves the caller's sequence unchanged; SJF, SJFPriority and RR
\* leave a permutation of the input records, every field unmodified, in
\* non-decreasing BurstDuration order, and rows are emitted in that order.
Occurrences(s, x) == Cardinality({k \in 1..Len(s) : s[k] = x})

IsPermutation(s, t) ==
    /\ Len(s) = Len(t)
    /\ \A k \in 1..Len(t) : Occurrences(s, t[k]) = Occurrences(t, t[k])

C9_CallerSequence ==
    /\ policy = "FCFS" => processes = input
    /\ (policy # "FCFS" /\ pc # "sort") =>
          /\ IsPermutation(processes, input)
          /\ \A k \in 1..(Len(processes) - 1) :
                processes[k].BurstDuration <= processes[k + 1].BurstDuration
    /\ \A k \in 1..Len(schedule) :
          schedule[k] # <<>> =>
              /\ RowID(schedule[k]) = processes[k].ProcessID
              /\ schedule[k][2] = Sprint(processes[k].Priority)
              /\ schedule[k][3] = Sprint(processes[k].BurstDuration)
              /\ schedule[k][4] = Sprint(processes[k].ArrivalTime)

C9_Witness ==
    /\ Ran("SJFPriority") /\ Len(processes) = 3
    /\ processes[1] = input[3] /\ processes[3] = input[2]

\* C10: FCFS, SJF and SJFPriority produce exactly one TimelineEntry per
\* process, the k-th carrying the ProcessID of the k-th served process.
C10_OneSlicePerProcess ==
    (policy # "RR" /\ pc = "done") =>
        /\ Len(gantt) = Len(processes)
        /\ \A k \in 1..Len(gantt) :
              /\ gantt[k].PID = processes[k].ProcessID
              /\ gantt[k].PID = RowID(schedule[k])

C10_Witness ==
    /\ Ran("SJF") /\ Len(gantt) = 3
    /\ gantt[1].PID = "P3" /\ RowID(schedule[1]) = "P3"

----------------------------------------------------------------------------
\* The sum of BurstDuration over the first k records of s.
RECURSIVE SumBurst(_, _)
SumBurst(s, k) == IF k = 0 THEN 0 ELSE SumBurst(s, k - 1) + s[k].BurstDuration

Max(a, b) == IF a > b THEN a ELSE b

\* C11: on an empty batch nothing is rendered and no aggregate is computed
\* by dividing by a zero process count (the call ends in EmptyBatchError).
C11_EmptyBatchRejected ==
    Len(input) = 0 =>
        /\ output = <<>>
        /\ aveWait.den # 0 /\ aveTurnaround.den # 0 /\ aveThroughput.den # 0

\* C12: in SJF and SJFPriority every reported WaitingTime is >= 0: a
\* negative serviceTime - ArrivalTime becomes 0 and the value carried over to
\* a process with ArrivalTime = 0 is never negative.
C12_SJFWaitingNonNegative ==
    policy \in {"SJF", "SJFPriority"} =>
        /\ waitingTime >= 0
        /\ \A k \in 1..Len(schedule) :
              schedule[k] # <<>> => RowWaiting(schedule[k]) >= 0

C12_Witness ==
    /\ Ran("SJF") /\ Len(processes) = 3
    /\ processes[2].ArrivalTime > SumBurst(processes, 1)
    /\ RowWaiting(schedule[2]) = 0
    /\ processes[3].ArrivalTime = 0 /\ RowWaiting(schedule[3]) = 0

\* C13: in FCFS a process with ArrivalTime > 0 waits (sum of the bursts
\* before it) - ArrivalTime; one with ArrivalTime = 0 is reported the
\* WaitingTime of the process before it (0 when it is the first).
C13_FCFSCarryOver ==
    Ran("FCFS") =>
        \A k \in 1..Len(processes) :
            RowWaiting(schedule[k]) =
                IF processes[k].ArrivalTime > 0
                THEN SumBurst(processes, k - 1) - processes[k].ArrivalTime
                ELSE IF k = 1 THEN 0 ELSE RowWaiting(schedule[k - 1])

C13_Witness ==
    /\ Ran("FCFS") /\ Len(processes) = 3
    /\ processes[2].ArrivalTime > 0 /\ RowWaiting(schedule[2]) > 0
    /\ processes[3].ArrivalTime = 0
    /\ RowWaiting(schedule[3]) = RowWaiting(schedule[2])
    /\ RowWaiting(schedule[3]) # SumBurst(processes, 2)

\* C14: in SJFPriority every process with ArrivalTime > 0 starts at the
\* later of the previous Stop (0 if none) and its arrival, stops one burst
\* later and waits Start - ArrivalTime.
C14_IdleAwareClock ==
    Ran("SJFPriority") =>
        \A k \in 1..Len(processes) :
            processes[k].ArrivalTime > 0 =>
                LET prev == IF k = 1 THEN 0 ELSE gantt[k - 1].Stop
                    start == Max(prev, processes[k].ArrivalTime)
                IN  /\ gantt[k].Start = start
                    /\ gantt[k].Stop = start + processes[k].BurstDuration
                    /\ RowWaiting(schedule[k]) = start - processes[k].ArrivalTime
                    /\ gantt[k].Start >= processes[k].ArrivalTime
                    /\ gantt[k].Start >= prev

C14_Witness ==
    /\ Ran("SJFPriority") /\ Len(processes) = 3
    /\ processes[2].ArrivalTime > gantt[1].Stop
    /\ gantt[2].Start = processes[2].ArrivalTime
    /\ processes[3].ArrivalTime > 0 /\ processes[3].ArrivalTime < gantt[2].Stop
    /\ RowWaiting(schedule[3]) > 0

----------------------------------------------------------------------------
\* The reference non-preemptive SJF of C15: whenever the CPU is free at time
\* t it runs to completion the shortest process of rem that has arrived, and
\* idles until the next arrival when none has.
MinArrival(b, rem) ==
    CHOOSE a \in {b[k].ArrivalTime : k \in rem} :
        \A k \in rem : a <= b[k].ArrivalTime

Shortest(b, ready) ==
    CHOOSE k \in ready :
        \A m \in ready :
            \/ b[k].BurstDuration < b[m].BurstDuration
            \/ b[k].BurstDuration = b[m].BurstDuration /\ k <= m

RECURSIVE ReferenceSJF(_, _, _)
ReferenceSJF(b, rem, t) ==
    IF rem = {} THEN <<>>
    ELSE LET ready == {k \in rem : b[k].ArrivalTime <= t}
         IN  IF ready = {}
             THEN ReferenceSJF(b, rem, MinArrival(b, rem))
             ELSE LET k == Shortest(b, ready)
                  IN  <<[ProcessID |-> b[k].ProcessID,
                         WaitingTime |-> t - b[k].ArrivalTime]>>
                      \o ReferenceSJF(b, rem \ {k}, t + b[k].BurstDuration)

DistinctBursts(s) ==
    \A k, m \in 1..Len(s) : k # m => s[k].BurstDuration # s[m].BurstDuration

ArrivalsNonDecreasing(s) ==
    \A k \in 1..(Len(s) - 1) : s[k].ArrivalTime <= s[k + 1].ArrivalTime

\* C15: for distinct bursts and arrivals non-decreasing along the sorted
\* order, SJFPriority serves in the order of the reference SJF and reports
\* the same WaitingTime for each process.
C15_MatchesReferenceSJF ==
    (Ran("SJFPriority") /\ DistinctBursts(processes)
        /\ ArrivalsNonDecreasing(processes)) =>
        [k \in 1..Len(schedule) |->
            [ProcessID |-> RowID(schedule[k]),
             WaitingTime |-> RowWaiting(schedule[k])]]
          = ReferenceSJF(input, 1..Len(input), 0)

\* C16: RR's outer loop ends for every batch; every execution happens in the
\* first scan, once per process and to completion; after that scan every
\* remainingTime is 0 and the next scan executes nothing and ends the loop.
\* Termination is the bound on the loops: at most two passes, i at most
\* n + 1, and pc always at a position where one of the steps is enabled.
C16_RRSinglePass ==
    policy = "RR" =>
        /\ scans <= 2
        /\ i <= Len(processes) + 1
        /\ pc \in {"sort", "init", "for", "scan", "rows", "done"}
        /\ \A e \in 1..Len(executions) :
              /\ executions[e].scan = 1
              /\ executions[e].index = e
              /\ executions[e].ran = processes[e].BurstDuration
              /\ remainingTime[e] = 0
        /\ (scans >= 1 /\ ~(pc = "scan" /\ scans = 1 /\ i <= Len(processes))) =>
              /\ Len(executions) = Len(processes)
              /\ \A k \in 1..Len(processes) : remainingTime[k] = 0
        /\ pc \in {"rows", "done"} =>
              /\ done
              /\ scans = IF Len(processes) = 0 THEN 1 ELSE 2

C16_Witness ==
    /\ Ran("RR") /\ Len(processes) = 3 /\ scans = 2
    /\ Len(executions) = 3 /\ executions[3].scan = 1
    /\ executions[3].ran = processes[3].BurstDuration

\* C17: RR runs the sorted processes back to back from time 0: the k-th
\* turnaround is (sum of the first k bursts) - ArrivalTime, the k-th waiting
\* time (sum of the bursts before it) - ArrivalTime, and the throughput
\* denominator is the sum of all bursts.
C17_RRBackToBack ==
    Ran("RR") =>
        /\ \A k \in 1..Len(processes) :
              /\ RowTurnaround(schedule[k]) =
                    SumBurst(processes, k) - processes[k].ArrivalTime
              /\ RowWaiting(schedule[k]) =
                    SumBurst(processes, k - 1) - processes[k].ArrivalTime
        /\ aveThroughput.den = SumBurst(processes, Len(processes))

C17_Witness ==
    /\ Ran("RR") /\ Len(processes) = 3
    /\ processes[1].ArrivalTime > 0 /\ RowWaiting(schedule[1]) < 0
    /\ processes[3].ArrivalTime > 0
    /\ RowTurnaround(schedule[3]) = aveThroughput.den - processes[3].ArrivalTime

\* C18: in FCFS, SJF and SJFPriority the CompletionTime of every row equals
\* the Stop of the process's TimelineEntry.
C18_CompletionIsStop ==
    (policy # "RR" /\ pc = "done") =>
        \A k \in 1..Len(processes) : RowCompletion(schedule[k]) = gantt[k].Stop

\* C19: in FCFS, SJF and SJFPriority every TimelineEntry satisfies
\* Stop - Start = BurstDuration.
C19_SliceLengthIsBurst ==
    (policy # "RR" /\ pc = "done") =>
        \A k \in 1..Len(processes) :
            gantt[k].Stop - gantt[k].Start = processes[k].BurstDuration

\* C20: for every non-empty batch the throughput denominator (the last
\* record's CompletionTime, or RR's final currentTime) is strictly positive.
C20_ThroughputDenominatorPositive ==
    (pc = "done" /\ Len(processes) > 0) =>
        /\ aveThroughput.den = CompletionAt(Len(processes))
        /\ aveThroughput.den > 0

====
